---- MODULE Spec2Model ----
(***************************************************************************)
(* THANOS Evolution hand controller (src/arduino/thanos_main).             *)
(*                                                                         *)
(* The model follows thanos_main.ino: the cooperative loop() with its      *)
(* three millis() gates, the serial command dispatcher, the pose catalog,  *)
(* the bounded-rate servo interpolation and the emergency-stop flag that   *)
(* the interrupt routine emergencyStopISR sets asynchronously.             *)
(*                                                                         *)
(* Strings are sequences of one-character strings so that trim(),          *)
(* toLowerCase(), toUpperCase(), startsWith() and substring() are computed *)
(* character by character.  C arrays indexed 0..4 are functions on 0..4.   *)
(* unsigned long values (millis() and the gate instants) are 32 bits wide: *)
(* they are kept as two 16-bit halves <<hi, lo>> and every operation on    *)
(* them is taken modulo 2^32.                                              *)
(***************************************************************************)
EXTENDS Integers, Sequences, FiniteSets, TLC

\* ------------------------------------------------------------------------
\* Program constants
\* ------------------------------------------------------------------------
NUM_FINGERS == 5
SERVO_SPEED == 5
SERVO_UPDATE_MS == 20
SENSOR_READ_MS == 10
CLOUD_UPLOAD_MS == 5000
ESTOP_DELAY_MS == 1000
IR_THRESHOLD == 50000
SERVO_INIT_DELAY_MS == 100
WIFI_RETRY_DELAY_MS == 500
WIFI_MAX_ATTEMPTS == 20
ALERT_HEART_RATE == 100

\* ------------------------------------------------------------------------
\* Bounds of the model
\* ------------------------------------------------------------------------
\* Longest serial backlog (lines waiting in the receive buffer).
MaxRx == 1
\* Longest uptime (ms after setup) up to which the free-running clock is
\* followed between statements of loop().
MaxTickUptime == 40
\* Longest uptime (ms after setup) the telemetry study follows (SpecTelemetry).
MaxTelemetryUptime == 5000
\* Time (ms) the wraparound study follows, from 40 ms before the wrap on.
MaxWrapSpan == 80
\* Time (ms) the angle range study follows after its start (SpecRange).
MaxRangeSpan == 40
\* Most items in the offlineData array of one sync request (SpecSync).
MaxItems == 2
\* Most records the stream route stores (SpecSync).
MaxStream == 1
\* Longest uptime (ms after setup) up to which delay() is followed.
MaxUptime == 8000
\* Motion steps followed in the interpolation study (SpecMotion).
MaxSteps == 40

Fingers == 0 .. (NUM_FINGERS - 1)

Min(a, b) == IF a <= b THEN a ELSE b
Max(a, b) == IF a >= b THEN a ELSE b

\* unsigned long: <<hi, lo>> stands for hi * 65536 + lo, both halves in 0..65535
HALF == 65536
U32(n) == <<(n \div HALF) % HALF, n % HALF>>
\* a + b, a - b modulo 2^32
AddU32(a, b) ==
    LET lo == a[2] + b[2]
        hi == a[1] + b[1] + (lo \div HALF)
    IN <<hi % HALF, lo % HALF>>
SubU32(a, b) ==
    LET lo == a[2] - b[2]
        hi == a[1] - b[1] - (IF lo < 0 THEN 1 ELSE 0)
    IN <<hi % HALF, lo % HALF>>
\* a >= b, a <= b
GeU32(a, b) == a[1] > b[1] \/ (a[1] = b[1] /\ a[2] >= b[2])
LeU32(a, b) == GeU32(b, a)
\* a / n for an int n in 1..65535, as an int
DivU32(a, n) == a[1] * (HALF \div n) + ((a[1] * (HALF % n) + a[2]) \div n)

\* C array literal {a, b, c, d, e} as a function on 0..4.
Arr(t) == [i \in Fingers |-> t[i + 1]]

\* ------------------------------------------------------------------------
\* Arduino String operations
\* ------------------------------------------------------------------------
LowerChars == <<"a","b","c","d","e","f","g","h","i","j","k","l","m",
                "n","o","p","q","r","s","t","u","v","w","x","y","z">>
UpperChars == <<"A","B","C","D","E","F","G","H","I","J","K","L","M",
                "N","O","P","Q","R","S","T","U","V","W","X","Y","Z">>

ToUpperChar(c) ==
    IF \E k \in 1..26 : LowerChars[k] = c
    THEN UpperChars[CHOOSE k \in 1..26 : LowerChars[k] = c]
    ELSE c

ToLowerChar(c) ==
    IF \E k \in 1..26 : UpperChars[k] = c
    THEN LowerChars[CHOOSE k \in 1..26 : UpperChars[k] = c]
    ELSE c

\* String::toUpperCase / String::toLowerCase
toUpperCase(s) == [k \in 1..Len(s) |-> ToUpperChar(s[k])]
toLowerCase(s) == [k \in 1..Len(s) |-> ToLowerChar(s[k])]

\* The vertical tab (0x0B), written as the character itself: TLA+ strings
\* have no escape for it.
VT == ""

\* isspace(): space, \t, \n, \v, \f, \r
IsSpace(c) == c \in {" ", "\t", "\n", VT, "\f", "\r"}

\* String::trim: drops leading and trailing whitespace.
trim(s) ==
    IF \A k \in 1..Len(s) : IsSpace(s[k])
    THEN << >>
    ELSE LET first == CHOOSE k \in 1..Len(s) :
                          /\ ~IsSpace(s[k])
                          /\ \A j \in 1..(k - 1) : IsSpace(s[j])
             last  == CHOOSE k \in 1..Len(s) :
                          /\ ~IsSpace(s[k])
                          /\ \A j \in (k + 1)..Len(s) : IsSpace(s[j])
         IN SubSeq(s, first, last)

\* String::startsWith
startsWith(s, p) == Len(s) >= Len(p) /\ SubSeq(s, 1, Len(p)) = p

\* String::substring(from): the characters from index `from` (0-based) on.
substring(s, from) == IF from >= Len(s) THEN << >> ELSE SubSeq(s, from + 1, Len(s))

\* String(int), String(unsigned long) and String(float): decimal text, the
\* float with two decimals. The floats of the program hold ADC counts, which
\* are whole numbers.
Digits == <<"0","1","2","3","4","5","6","7","8","9">>

RECURSIVE StringOfInt(_)
StringOfInt(n) ==
    IF n < 0 THEN <<"-">> \o StringOfInt(0 - n)
    ELSE IF n < 10 THEN <<Digits[n + 1]>>
    ELSE StringOfInt(n \div 10) \o <<Digits[(n % 10) + 1]>>

\* a % n for an int n in 1..65535
ModU32(a, n) == (a[1] * (HALF % n) + a[2]) % n

StringOfULong(a) ==
    IF a[1] = 0 THEN StringOfInt(a[2])
    ELSE StringOfInt(DivU32(a, 10)) \o <<Digits[ModU32(a, 10) + 1]>>

StringOfFloat(x) == StringOfInt(x) \o <<".","0","0">>

\* ------------------------------------------------------------------------
\* Pose catalog
\* ------------------------------------------------------------------------
poses == <<
    [name |-> <<"R","E","S","T">>,                      angles |-> Arr(<<0, 0, 0, 0, 0>>)],
    [name |-> <<"F","I","S","T">>,                      angles |-> Arr(<<90, 180, 180, 180, 180>>)],
    [name |-> <<"O","P","E","N">>,                      angles |-> Arr(<<45, 0, 0, 0, 0>>)],
    [name |-> <<"O","N","E">>,                          angles |-> Arr(<<90, 0, 180, 180, 180>>)],
    [name |-> <<"T","W","O">>,                          angles |-> Arr(<<90, 0, 0, 180, 180>>)],
    [name |-> <<"T","H","R","E","E">>,                  angles |-> Arr(<<90, 0, 0, 0, 180>>)],
    [name |-> <<"F","O","U","R">>,                      angles |-> Arr(<<90, 0, 0, 0, 0>>)],
    [name |-> <<"F","I","V","E">>,                      angles |-> Arr(<<45, 0, 0, 0, 0>>)],
    [name |-> <<"L","_","S","H","A","P","E">>,          angles |-> Arr(<<0, 0, 180, 180, 180>>)],
    [name |-> <<"B","A","D","_","F","I","N","G","E","R">>, angles |-> Arr(<<90, 180, 0, 180, 180>>)],
    [name |-> <<"S","P","I","D","E","R","M","A","N">>,  angles |-> Arr(<<0, 0, 180, 180, 0>>)],
    [name |-> <<"E","Y","Y">>,                          angles |-> Arr(<<0, 0, 180, 180, 180>>)],
    [name |-> <<"R","O","C","K","_","R","O","L","L">>,  angles |-> Arr(<<0, 0, 180, 180, 0>>)],
    [name |-> <<"T","W","O","_","J","O","I","N","T">>,  angles |-> Arr(<<90, 180, 180, 90, 90>>)]
>>

NUM_POSES == Len(poses)

REST_NAME == <<"R","E","S","T">>
FIST_NAME == <<"F","I","S","T">>

\* ------------------------------------------------------------------------
\* State
\* ------------------------------------------------------------------------
VARIABLES
    pc,               \* position of loop(): "top", "servo", "sensor", "cloud", "connect", "serial"
    emergencyStop,    \* bool emergencyStop
    currentPose,      \* int currentPose[NUM_FINGERS]
    targetPose,       \* int targetPose[NUM_FINGERS]
    movementActive,   \* bool movementActive
    currentPoseName,  \* String currentPoseName
    fingers,          \* Servo fingers[NUM_FINGERS]: attached flag and last angle written
    gsrValue, emgValue, heartRate, spo2,
    irValue,          \* long irValue, the intensity readSensors() read last
    now,              \* millis()
    lastServoUpdate, lastSensorRead, lastCloudUpload,
    sessionStartTime, sessionID,
    rx,               \* lines waiting in the serial receive buffer
    client,           \* last payload handed to the WiFi client, or NoPayload
    payload,          \* String payload of uploadToCloud() while it waits in client.connect()
    waited,           \* ms uploadToCloud() has waited in client.connect() so far
    notices,          \* "!!! EMERGENCY STOP ACTIVE !!!" lines printed on Serial
    poseReply,        \* what setPose() printed last: "", "executing" or "not found"
    resumed,          \* "System resumed" has been printed on Serial
    dataPoints,       \* collector: the DataPoint collection, in order of insertion
    sync,             \* collector: the /api/sync/upload requests, one record each
    stream,           \* collector: the /api/data/stream request being handled
    steps             \* motion steps applied (interpolation study only)

handVars   == <<currentPose, targetPose, movementActive, currentPoseName, fingers>>
sensorVars == <<gsrValue, emgValue, heartRate, spo2, irValue>>
gateVars   == <<lastServoUpdate, lastSensorRead, lastCloudUpload>>
bootVars   == <<sessionStartTime, sessionID>>
serverVars == <<dataPoints, sync, stream>>
firmwareVars == <<pc, emergencyStop, handVars, sensorVars, now, gateVars, bootVars,
                  rx, client, payload, waited, notices, poseReply, resumed, steps>>
vars == <<pc, emergencyStop, handVars, sensorVars, now, gateVars, bootVars,
          rx, client, payload, waited, notices, poseReply, resumed, steps, serverVars>>

NoPayload == << >>

\* unsigned long subtraction millis() - last
Elapsed(t, last) == SubU32(t, last)

\* (millis() - sessionStartTime)
Uptime == Elapsed(now, sessionStartTime)

AllDetached == \A i \in Fingers : ~fingers[i].attached
AllAttached == \A i \in Fingers : fingers[i].attached

\* ------------------------------------------------------------------------
\* Inputs (environment)
\* ------------------------------------------------------------------------
\* millis() when setup() returns: the five delay(100) of initServos, plus
\* the twenty delay(500) of initWiFi when the network never comes up.
BootFast == NUM_FINGERS * SERVO_INIT_DELAY_MS
BootSlow == BootFast + WIFI_MAX_ATTEMPTS * WIFI_RETRY_DELAY_MS
BootTimes == {BootFast, BootSlow}

\* random(10000) drawn for the session id
SessionRands == {4711}

\* Advances of millis() between two statements of loop().
TickDeltas == {10, 20}

\* Advances of millis() between two reads a few statements apart (lines 111
\* and 112, lines 291 and 298).
ReadDeltas == {0, 1}

\* Times (ms) at which uploadToCloud() is looked at while it waits in
\* client.connect(); the call returns at one of them.
ConnectDelays == {0, 150, 300}

\* analogRead() results, getIR() intensities, getHeartRate(), getSpO2()
GsrInputs == {512}
EmgInputs == {300}
IrInputs == {40000, 60000}
HeartRates == {72}
SpO2s == {98}

\* Lines typed on the serial console.
CmdPoseFist  == <<"P","o","s","e"," ","F","i","s","t">>
CmdList      == <<"l","i","s","t">>
CmdStop      == <<"s","t","o","p">>
CmdData      == <<"d","a","t","a">>
CmdDataCr    == <<" ",VT,"D","a","t","a","\r">>
CmdResume    == <<"r","e","s","u","m","e">>
Commands == {CmdPoseFist, CmdStop, CmdResume, CmdDataCr}

\* ------------------------------------------------------------------------
\* Collector (server.js): state when the server starts
\* ------------------------------------------------------------------------
\* The clients that post to /api/sync/upload.
Requests == {1, 2}

\* A request the server has not received yet.
IdleRequest ==
    [pc |-> "idle", offlineData |-> << >>, i |-> 0, existing |-> FALSE,
     synced |-> << >>, failed |-> << >>]

\* No stream request received yet.
IdleStream == [pc |-> "idle", heart_rate |-> 0, status |-> 0]

ServerInit ==
    /\ dataPoints = << >>
    /\ sync = [r \in Requests |-> IdleRequest]
    /\ stream = IdleStream

\* ------------------------------------------------------------------------
\* setup()
\* ------------------------------------------------------------------------
Init ==
    /\ pc = "top"
    /\ emergencyStop = FALSE
    /\ currentPose = [i \in Fingers |-> 0]
    /\ targetPose = [i \in Fingers |-> 0]
    /\ movementActive = FALSE
    /\ currentPoseName = REST_NAME
    /\ fingers = [i \in Fingers |-> [attached |-> TRUE, angle |-> 0]]
    /\ gsrValue = 0 /\ emgValue = 0 /\ heartRate = 0 /\ spo2 = 0 /\ irValue = 0
    /\ lastServoUpdate = U32(0) /\ lastSensorRead = U32(0) /\ lastCloudUpload = U32(0)
    /\ \E b \in BootTimes, d \in ReadDeltas, r \in SessionRands :
          \* line 111 reads millis() = b, line 112 reads it again, d ms later
          /\ sessionID = StringOfULong(U32(b)) \o <<"_">> \o StringOfInt(r)
          /\ sessionStartTime = U32(b + d)
          /\ now = U32(b + d)
    /\ rx = << >>
    /\ client = NoPayload /\ payload = NoPayload /\ waited = 0
    /\ notices = 0
    /\ poseReply = ""
    /\ resumed = FALSE
    /\ steps = 0
    /\ ServerInit

\* ------------------------------------------------------------------------
\* Servo control
\* ------------------------------------------------------------------------
\* Variant: the difference taken the wrong way round (current - target).
StepOf_Reversed(cur, tgt) ==
    LET diff == cur - tgt
    IN IF diff > 0 THEN Min(SERVO_SPEED, diff) ELSE Max(-SERVO_SPEED, diff)

\* Variant: no rate limit, the channel jumps to its target.
StepOf_Jump(cur, tgt) == tgt - cur

\* int step = (diff > 0) ? min(SERVO_SPEED, diff) : max(-SERVO_SPEED, diff);
StepOf(cur, tgt) ==
    LET diff == tgt - cur
    IN IF diff > 0 THEN Min(SERVO_SPEED, diff) ELSE Max(-SERVO_SPEED, diff)

\* Variant: the loop stops one channel short (i < NUM_FINGERS - 1).
SteppedPose_SkipLast(cur, tgt) ==
    [i \in Fingers |->
        IF i < NUM_FINGERS - 1 /\ cur[i] # tgt[i] THEN cur[i] + StepOf(cur[i], tgt[i]) ELSE cur[i]]

\* currentPose after updateServoPositions()
SteppedPose(cur, tgt) ==
    [i \in Fingers |-> IF cur[i] # tgt[i] THEN cur[i] + StepOf(cur[i], tgt[i]) ELSE cur[i]]

\* Variant: movementActive is not reset at the start of the step.
updateServoPositions_StickyActive ==
    /\ movementActive' = (movementActive \/ \E i \in Fingers : currentPose[i] # targetPose[i])
    /\ currentPose' = SteppedPose(currentPose, targetPose)
    /\ fingers' = [i \in Fingers |->
                     IF currentPose[i] # targetPose[i]
                     THEN [fingers[i] EXCEPT !.angle = currentPose'[i]]
                     ELSE fingers[i]]

\* updateServoPositions(): effect on currentPose, movementActive, fingers
updateServoPositions ==
    /\ movementActive' = (\E i \in Fingers : currentPose[i] # targetPose[i])
    /\ currentPose' = SteppedPose(currentPose, targetPose)
    /\ fingers' = [i \in Fingers |->
                     IF currentPose[i] # targetPose[i]
                     THEN [fingers[i] EXCEPT !.angle = currentPose'[i]]
                     ELSE fingers[i]]

\* Variant: the comparison accepts a name that a catalog name starts with.
FindPose_Prefix(n) ==
    IF \E k \in 1..NUM_POSES : startsWith(poses[k].name, n)
    THEN CHOOSE k \in 1..NUM_POSES :
             /\ startsWith(poses[k].name, n)
             /\ \A j \in 1..(k - 1) : ~startsWith(poses[j].name, n)
    ELSE 0

\* index of the first catalog entry whose name equals n, 0 when none does
FindPose(n) ==
    IF \E k \in 1..NUM_POSES : poses[k].name = n
    THEN CHOOSE k \in 1..NUM_POSES :
             /\ poses[k].name = n
             /\ \A j \in 1..(k - 1) : poses[j].name # n
    ELSE 0

\* Variant: a name that is not found falls back to the REST pose.
setPose_RestOnMiss(poseName) ==
    \E upper \in {toUpperCase(poseName)} :
    \E k \in {FindPose(upper)} :
       IF k # 0
       THEN /\ poseReply' = "executing"
            /\ currentPoseName' = upper
            /\ targetPose' = poses[k].angles
       ELSE /\ poseReply' = "not found"
            /\ currentPoseName' = poses[1].name
            /\ targetPose' = poses[1].angles

\* Variant: a name that is found changes the target only, not currentPoseName.
setPose_KeepsName(poseName) ==
    \E upper \in {toUpperCase(poseName)} :
    \E k \in {FindPose(upper)} :
       IF k # 0
       THEN /\ poseReply' = "executing"
            /\ targetPose' = poses[k].angles
            /\ UNCHANGED currentPoseName
       ELSE /\ poseReply' = "not found"
            /\ UNCHANGED <<currentPoseName, targetPose>>

\* setPose(poseName): effect on currentPoseName, targetPose and the Serial reply
setPose(poseName) ==
    \E upper \in {toUpperCase(poseName)} :
    \E k \in {FindPose(upper)} :
       IF k # 0
       THEN /\ poseReply' = "executing"
            /\ currentPoseName' = upper
            /\ targetPose' = poses[k].angles
       ELSE /\ poseReply' = "not found"
            /\ UNCHANGED <<currentPoseName, targetPose>>

\* ------------------------------------------------------------------------
\* Safety functions
\* ------------------------------------------------------------------------
\* millis() after delay(ms)
AfterDelay(ms) == AddU32(now, U32(ms))

\* The run is followed while a delay(ms) ends within MaxUptime of setup().
DelayFollowed(ms) ==
    LeU32(AddU32(Uptime, U32(ms)), U32(MaxUptime)) /\ LeU32(Uptime, U32(MaxUptime))

\* The count of notices once one more is printed.
NoticesAfter == notices + 1

\* Variant: the detach loop stops one channel short (i < NUM_FINGERS - 1).
handleEmergencyStop_OffByOne ==
    /\ fingers' = [i \in Fingers |->
                     IF i < NUM_FINGERS - 1
                     THEN [fingers[i] EXCEPT !.attached = FALSE]
                     ELSE fingers[i]]
    /\ notices' = NoticesAfter
    /\ DelayFollowed(ESTOP_DELAY_MS)
    /\ now' = AfterDelay(ESTOP_DELAY_MS)

\* Variant: the notice is printed only by the pass that detaches the servos.
handleEmergencyStop_NoticeOnce ==
    /\ fingers' = [i \in Fingers |-> [fingers[i] EXCEPT !.attached = FALSE]]
    /\ notices' = IF AllAttached THEN NoticesAfter ELSE notices
    /\ DelayFollowed(ESTOP_DELAY_MS)
    /\ now' = AfterDelay(ESTOP_DELAY_MS)

\* handleEmergencyStop(): detach every servo, print the notice, delay(1000)
handleEmergencyStop ==
    /\ fingers' = [i \in Fingers |-> [fingers[i] EXCEPT !.attached = FALSE]]
    /\ notices' = NoticesAfter
    /\ DelayFollowed(ESTOP_DELAY_MS)
    /\ now' = AfterDelay(ESTOP_DELAY_MS)

\* emergencyStopISR(): the falling edge on the stop pin, at any point of loop().
\* The flag is a plain bool; loop() reads it once per pass, at its entry, so
\* every pass sees the value stored in memory.
emergencyStopISR ==
    /\ emergencyStop' = TRUE
    /\ UNCHANGED <<pc, handVars, sensorVars, now, gateVars, bootVars, serverVars, rx, client, payload, waited, notices, poseReply, resumed, steps>>

\* ------------------------------------------------------------------------
\* Command processing
\* ------------------------------------------------------------------------
PosePrefix == <<"p","o","s","e"," ">>

\* Variant: "stop" also drops the target back to the REST pose.
processCommand_StopRests(cmd) ==
    \E c \in {toLowerCase(trim(cmd))} :
       IF startsWith(c, PosePrefix)
       THEN /\ setPose(substring(c, 5))
            /\ UNCHANGED resumed
            /\ UNCHANGED emergencyStop
       ELSE IF c = CmdStop
       THEN /\ emergencyStop' = TRUE
            /\ targetPose' = poses[1].angles
            /\ UNCHANGED <<currentPoseName, poseReply, resumed>>
       ELSE IF c = CmdResume
       THEN /\ emergencyStop' = FALSE
            /\ resumed' = TRUE
            /\ UNCHANGED <<currentPoseName, targetPose, poseReply>>
       ELSE UNCHANGED <<emergencyStop, currentPoseName, targetPose, poseReply, resumed>>

\* Variant: a pose command also re-arms the interlock.
processCommand_PoseClearsStop(cmd) ==
    \E c \in {toLowerCase(trim(cmd))} :
       IF startsWith(c, PosePrefix)
       THEN /\ setPose(substring(c, 5))
            /\ UNCHANGED resumed
            /\ emergencyStop' = FALSE
       ELSE IF c = CmdStop
       THEN /\ emergencyStop' = TRUE
            /\ UNCHANGED <<currentPoseName, targetPose, poseReply, resumed>>
       ELSE IF c = CmdResume
       THEN /\ emergencyStop' = FALSE
            /\ resumed' = TRUE
            /\ UNCHANGED <<currentPoseName, targetPose, poseReply>>
       ELSE UNCHANGED <<emergencyStop, currentPoseName, targetPose, poseReply, resumed>>

\* processCommand(cmd): effect on emergencyStop, currentPoseName, targetPose, poseReply
processCommand(cmd) ==
    \E c \in {toLowerCase(trim(cmd))} :
       IF startsWith(c, PosePrefix)
       THEN /\ setPose(substring(c, 5))
            /\ UNCHANGED resumed
            /\ UNCHANGED emergencyStop
       ELSE IF c = CmdList
       THEN UNCHANGED <<emergencyStop, currentPoseName, targetPose, poseReply, resumed>>
       ELSE IF c = CmdStop
       THEN /\ emergencyStop' = TRUE
            /\ UNCHANGED <<currentPoseName, targetPose, poseReply, resumed>>
       ELSE IF c = CmdData
       THEN UNCHANGED <<emergencyStop, currentPoseName, targetPose, poseReply, resumed>>
       ELSE IF c = CmdResume
       THEN /\ emergencyStop' = FALSE
            /\ resumed' = TRUE
            /\ UNCHANGED <<currentPoseName, targetPose, poseReply>>
       ELSE UNCHANGED <<emergencyStop, currentPoseName, targetPose, poseReply, resumed>>

\* ------------------------------------------------------------------------
\* Sensors and cloud
\* ------------------------------------------------------------------------
\* Variant: with no finger on the optical sensor the pulse values are zeroed.
readSensors_ZeroOnAbsent(gsr, emg, ir, hr, sp) ==
    /\ gsrValue' = gsr
    /\ emgValue' = emg
    /\ irValue' = ir
    /\ IF ir > IR_THRESHOLD
       THEN heartRate' = hr /\ spo2' = sp
       ELSE heartRate' = 0 /\ spo2' = 0

\* readSensors() with the values the hardware returns
readSensors(gsr, emg, ir, hr, sp) ==
    /\ gsrValue' = gsr
    /\ emgValue' = emg
    /\ irValue' = ir
    /\ IF ir > IR_THRESHOLD
       THEN heartRate' = hr /\ spo2' = sp
       ELSE UNCHANGED <<heartRate, spo2>>

Quote == <<"\"">>

\* Variant: the gsr and emg readings are written under each other's key.
createDataPayload_SwapGsrEmg(t1, t2) ==
    << <<"session_id", Quote \o sessionID \o Quote>>,
       <<"timestamp", StringOfULong(t1)>>,
       <<"pose", Quote \o currentPoseName \o Quote>>,
       <<"servo_positions",
         <<"[">> \o StringOfInt(currentPose[0]) \o <<",">> \o StringOfInt(currentPose[1])
                \o <<",">> \o StringOfInt(currentPose[2]) \o <<",">>
                \o StringOfInt(currentPose[3]) \o <<",">> \o StringOfInt(currentPose[4])
                \o <<"]">> >>,
       <<"gsr", StringOfFloat(emgValue)>>,
       <<"emg", StringOfFloat(gsrValue)>>,
       <<"heart_rate", StringOfInt(heartRate)>>,
       <<"spo2", StringOfInt(spo2)>>,
       <<"session_duration", StringOfInt(DivU32(Elapsed(t2, sessionStartTime), 1000))>> >>

\* createDataPayload(): the JSON object as the sequence of its members, each a
\* key and the text written after the colon. t1 is the millis() read for
\* timestamp (line 291), t2 the one read for session_duration (line 298).
createDataPayload(t1, t2) ==
    << <<"session_id", Quote \o sessionID \o Quote>>,
       <<"timestamp", StringOfULong(t1)>>,
       <<"pose", Quote \o currentPoseName \o Quote>>,
       <<"servo_positions",
         <<"[">> \o StringOfInt(currentPose[0]) \o <<",">> \o StringOfInt(currentPose[1])
                \o <<",">> \o StringOfInt(currentPose[2]) \o <<",">>
                \o StringOfInt(currentPose[3]) \o <<",">> \o StringOfInt(currentPose[4])
                \o <<"]">> >>,
       <<"gsr", StringOfFloat(gsrValue)>>,
       <<"emg", StringOfFloat(emgValue)>>,
       <<"heart_rate", StringOfInt(heartRate)>>,
       <<"spo2", StringOfInt(spo2)>>,
       <<"session_duration", StringOfInt(DivU32(Elapsed(t2, sessionStartTime), 1000))>> >>

\* ------------------------------------------------------------------------
\* loop()
\* ------------------------------------------------------------------------
\* Variant: the return after handleEmergencyStop() is missing.
LoopCheck_NoReturn ==
    /\ pc = "top"
    /\ pc' = "servo"
    /\ IF emergencyStop
       THEN /\ handleEmergencyStop
            /\ UNCHANGED <<currentPose, targetPose, movementActive, currentPoseName>>
       ELSE UNCHANGED <<handVars, now, notices>>
    /\ UNCHANGED <<emergencyStop, sensorVars, gateVars, bootVars, serverVars, rx, client, payload, waited, poseReply, resumed, steps>>

\* Variant: the fail-safe path clears the flag by itself once it has run.
LoopCheck_AutoClear ==
    /\ pc = "top"
    /\ IF emergencyStop
       THEN /\ handleEmergencyStop
            /\ emergencyStop' = FALSE
            /\ pc' = "top"
            /\ UNCHANGED <<currentPose, targetPose, movementActive, currentPoseName>>
       ELSE /\ pc' = "servo"
            /\ UNCHANGED <<handVars, now, emergencyStop, notices>>
    /\ UNCHANGED <<sensorVars, gateVars, bootVars, serverVars, rx, client, payload, waited, poseReply, resumed, steps>>

\* if (emergencyStop) { handleEmergencyStop(); return; }
LoopCheck ==
    /\ pc = "top"
    /\ IF emergencyStop
       THEN /\ handleEmergencyStop
            /\ pc' = "top"
            /\ UNCHANGED <<currentPose, targetPose, movementActive, currentPoseName>>
       ELSE /\ pc' = "servo"
            /\ UNCHANGED <<handVars, now, notices>>
    /\ UNCHANGED <<emergencyStop, sensorVars, gateVars, bootVars, serverVars, rx, client, payload, waited, poseReply, resumed, steps>>

\* Variant: the reference instant advances by one interval per run, so a late
\* check leaves a backlog of runs.
LoopServo_Backlog ==
    /\ pc = "servo"
    /\ pc' = "sensor"
    /\ IF GeU32(Elapsed(now, lastServoUpdate), U32(SERVO_UPDATE_MS))
       THEN /\ updateServoPositions
            /\ lastServoUpdate' = AddU32(lastServoUpdate, U32(SERVO_UPDATE_MS))
       ELSE UNCHANGED <<currentPose, movementActive, fingers, lastServoUpdate>>
    /\ UNCHANGED <<emergencyStop, targetPose, currentPoseName, sensorVars, now,
                   lastSensorRead, lastCloudUpload, bootVars, serverVars, rx, client, payload, waited, notices, poseReply, resumed, steps>>

\* Variant: the gate compares the clock with a deadline, last + interval,
\* instead of comparing the elapsed time with the interval.
LoopServo_AbsoluteDeadline ==
    /\ pc = "servo"
    /\ pc' = "sensor"
    /\ IF GeU32(now, AddU32(lastServoUpdate, U32(SERVO_UPDATE_MS)))
       THEN /\ updateServoPositions
            /\ lastServoUpdate' = now
       ELSE UNCHANGED <<currentPose, movementActive, fingers, lastServoUpdate>>
    /\ UNCHANGED <<emergencyStop, targetPose, currentPoseName, sensorVars, now,
                   lastSensorRead, lastCloudUpload, bootVars, serverVars, rx, client, payload, waited, notices, poseReply, resumed, steps>>

\* if (millis() - lastServoUpdate >= SERVO_UPDATE_MS) { ... }
LoopServo ==
    /\ pc = "servo"
    /\ pc' = "sensor"
    /\ IF GeU32(Elapsed(now, lastServoUpdate), U32(SERVO_UPDATE_MS))
       THEN /\ updateServoPositions
            /\ lastServoUpdate' = now
       ELSE UNCHANGED <<currentPose, movementActive, fingers, lastServoUpdate>>
    /\ UNCHANGED <<emergencyStop, targetPose, currentPoseName, sensorVars, now,
                   lastSensorRead, lastCloudUpload, bootVars, serverVars, rx, client, payload, waited, notices, poseReply, resumed, steps>>

\* if (millis() - lastSensorRead >= 10) { ... }, the hardware returning values
\* out of the sets G, E, I, H, S
LoopSensorOf(G, E, I, H, S) ==
    /\ pc = "sensor"
    /\ pc' = "cloud"
    /\ IF GeU32(Elapsed(now, lastSensorRead), U32(SENSOR_READ_MS))
       THEN /\ \E gsr \in G, emg \in E, ir \in I, hr \in H, sp \in S :
                  readSensors(gsr, emg, ir, hr, sp)
            /\ lastSensorRead' = now
       ELSE UNCHANGED <<sensorVars, lastSensorRead>>
    /\ UNCHANGED <<emergencyStop, handVars, now, lastServoUpdate, lastCloudUpload,
                   bootVars, serverVars, rx, client, payload, waited, notices, poseReply, resumed, steps>>

LoopSensor == LoopSensorOf(GsrInputs, EmgInputs, IrInputs, HeartRates, SpO2s)

\* Variant: an attempt that finds the network down does not re-base the gate,
\* so it is made again in the next pass.
LoopCloud_RetryAtOnce ==
    /\ pc = "cloud"
    /\ IF GeU32(Elapsed(now, lastCloudUpload), U32(CLOUD_UPLOAD_MS))
       THEN \E wifiUp \in BOOLEAN, d1 \in ReadDeltas :
               /\ now' = AddU32(now, U32(d1))
               /\ IF wifiUp
                  THEN /\ payload' = createDataPayload(now, now')
                       /\ pc' = "connect"
                       /\ UNCHANGED lastCloudUpload
                  ELSE /\ pc' = "serial"
                       /\ UNCHANGED <<payload, lastCloudUpload>>
       ELSE /\ pc' = "serial"
            /\ UNCHANGED <<payload, lastCloudUpload, now>>
    /\ UNCHANGED <<emergencyStop, handVars, sensorVars, lastServoUpdate, lastSensorRead,
                   bootVars, serverVars, rx, client, waited, notices, poseReply, resumed, steps>>

\* if (millis() - lastCloudUpload >= 5000) { uploadToCloud(); ... }, up to the
\* call of client.connect(): the gate is tested with one read of the clock;
\* with the network down uploadToCloud() returns at once and loop() re-bases
\* the gate with its next read (line 145); with the network up the payload is
\* built, stamped with the two reads of createDataPayload(), and loop() waits
\* in client.connect().
LoopCloud ==
    /\ pc = "cloud"
    /\ IF GeU32(Elapsed(now, lastCloudUpload), U32(CLOUD_UPLOAD_MS))
       THEN \E wifiUp \in BOOLEAN, d1 \in ReadDeltas :
               /\ now' = AddU32(now, U32(d1))
               /\ IF wifiUp
                  THEN /\ payload' = createDataPayload(now, now')
                       /\ pc' = "connect"
                       /\ UNCHANGED lastCloudUpload
                  ELSE /\ pc' = "serial"
                       /\ lastCloudUpload' = now'
                       /\ UNCHANGED payload
       ELSE /\ pc' = "serial"
            /\ UNCHANGED <<payload, lastCloudUpload, now>>
    /\ UNCHANGED <<emergencyStop, handVars, sensorVars, lastServoUpdate, lastSensorRead,
                   bootVars, serverVars, rx, client, waited, notices, poseReply, resumed, steps>>

\* client.connect() is still waiting for the network: the clock goes on to a
\* longer wait of ConnectDelays while loop() stands at line 270.
LoopConnectWait ==
    /\ pc = "connect"
    /\ \E d \in ConnectDelays :
          /\ d > waited
          /\ waited' = d
          /\ now' = AddU32(now, U32(d - waited))
    /\ UNCHANGED <<pc, emergencyStop, handVars, sensorVars, gateVars, bootVars, serverVars,
                   rx, client, payload, notices, poseReply, resumed, steps>>

\* client.connect() returns: the payload is written to the socket when the
\* connection was made and dropped when it was refused, and loop() re-bases
\* the gate with the read of line 145.
LoopConnectDone ==
    /\ pc = "connect"
    /\ pc' = "serial"
    /\ \E connected \in BOOLEAN :
          client' = IF connected THEN payload ELSE client
    /\ payload' = NoPayload
    /\ waited' = 0
    /\ lastCloudUpload' = now
    /\ UNCHANGED <<emergencyStop, handVars, sensorVars, now, lastServoUpdate, lastSensorRead,
                   bootVars, serverVars, rx, notices, poseReply, resumed, steps>>

\* Variant: a command that changes the target also moves the servos at once.
LoopSerial_MovesAtOnce ==
    /\ pc = "serial"
    /\ pc' = "top"
    /\ IF rx # << >>
       THEN /\ processCommand(Head(rx))
            /\ rx' = Tail(rx)
            /\ currentPose' = SteppedPose(currentPose, targetPose')
            /\ fingers' = [i \in Fingers |-> [fingers[i] EXCEPT !.angle = currentPose'[i]]]
       ELSE UNCHANGED <<emergencyStop, currentPoseName, targetPose, poseReply, resumed, rx,
                        currentPose, fingers>>
    /\ UNCHANGED <<movementActive, sensorVars, now, gateVars,
                   bootVars, serverVars, client, payload, waited, notices, steps>>

\* if (Serial.available()) { processCommand(Serial.readStringUntil('\n')); }
LoopSerial ==
    /\ pc = "serial"
    /\ pc' = "top"
    /\ IF rx # << >>
       THEN /\ processCommand(Head(rx))
            /\ rx' = Tail(rx)
       ELSE UNCHANGED <<emergencyStop, currentPoseName, targetPose, poseReply, resumed, rx>>
    /\ UNCHANGED <<currentPose, movementActive, fingers, sensorVars, now, gateVars,
                   bootVars, serverVars, client, payload, waited, notices, steps>>

\* ------------------------------------------------------------------------
\* Environment
\* ------------------------------------------------------------------------
\* A line out of the set `lines` arrives in the serial receive buffer.
SerialArriveOf(lines) ==
    /\ Len(rx) < MaxRx
    /\ \E cmd \in lines : rx' = Append(rx, cmd)
    /\ UNCHANGED <<pc, emergencyStop, handVars, sensorVars, now, gateVars,
                   bootVars, serverVars, client, payload, waited, notices, poseReply, resumed, steps>>

SerialArrive == SerialArriveOf(Commands)

\* millis() advances by a step out of D, up to the uptime `limit`.
TickOf(D, limit) ==
    /\ pc # "connect"
    /\ \E d \in D :
          /\ LeU32(AddU32(Uptime, U32(d)), U32(limit))
          /\ LeU32(Uptime, U32(limit))
          /\ now' = AddU32(now, U32(d))
    /\ UNCHANGED <<pc, emergencyStop, handVars, sensorVars, gateVars, bootVars, serverVars,
                   rx, client, payload, waited, notices, poseReply, resumed, steps>>

Tick == TickOf(TickDeltas, MaxTickUptime)

Next ==
    \/ LoopCheck
    \/ LoopServo
    \/ LoopSensor
    \/ LoopCloud
    \/ LoopConnectWait
    \/ LoopConnectDone
    \/ LoopSerial
    \/ emergencyStopISR
    \/ SerialArrive
    \/ Tick

\* setup() with the network up at once or not within its twenty attempts,
\* when the clock did not tick between its two reads
InitPrompt == Init /\ now \in {U32(BootFast), U32(BootSlow)}

Spec == InitPrompt /\ [][Next]_vars

\* The processor keeps executing loop(): a pass that can take its next
\* statement eventually takes it.
Loop ==
    \/ LoopCheck
    \/ LoopServo
    \/ LoopSensor
    \/ LoopCloud
    \/ LoopConnectWait
    \/ LoopConnectDone
    \/ LoopSerial

\* The stop/resume study: the console sends only stop, resume and one pose,
\* and the processor keeps executing loop().
StopResumeCommands == {CmdStop, CmdResume, CmdPoseFist}

SerialArriveStopResume == SerialArriveOf(StopResumeCommands)

NextStopResume ==
    \/ Loop
    \/ emergencyStopISR
    \/ SerialArriveStopResume
    \/ Tick

FairSpec == Init /\ [][NextStopResume]_vars /\ WF_vars(Loop)

\* ------------------------------------------------------------------------
\* Interpolation study: a pose of the catalog is commanded from the state
\* setup() leaves, and updateServoPositions() is applied step after step.
\* ------------------------------------------------------------------------
InitMotion ==
    /\ pc = "servo"
    /\ emergencyStop = FALSE
    /\ currentPose = [i \in Fingers |-> 0]
    /\ movementActive = FALSE
    /\ \E k \in 1..NUM_POSES :
          /\ currentPoseName = poses[k].name
          /\ targetPose = poses[k].angles
    /\ fingers = [i \in Fingers |-> [attached |-> TRUE, angle |-> 0]]
    /\ gsrValue = 0 /\ emgValue = 0 /\ heartRate = 0 /\ spo2 = 0 /\ irValue = 0
    /\ now = U32(BootFast)
    /\ lastServoUpdate = U32(0) /\ lastSensorRead = U32(0) /\ lastCloudUpload = U32(0)
    /\ sessionStartTime = now
    /\ \E r \in SessionRands :
          sessionID = StringOfULong(now) \o <<"_">> \o StringOfInt(r)
    /\ rx = << >>
    /\ client = NoPayload /\ payload = NoPayload /\ waited = 0
    /\ notices = 0
    /\ poseReply = "executing"
    /\ resumed = FALSE
    /\ steps = 0
    /\ ServerInit

\* One call of updateServoPositions().
MotionStep ==
    /\ steps < MaxSteps
    /\ updateServoPositions
    /\ steps' = steps + 1
    /\ UNCHANGED <<pc, emergencyStop, targetPose, currentPoseName, sensorVars, now,
                   gateVars, bootVars, serverVars, rx, client, payload, waited, notices, poseReply, resumed>>

NextMotion == MotionStep

SpecMotion == InitMotion /\ [][NextMotion]_vars

\* ------------------------------------------------------------------------
\* Wraparound study: the program has run for 49.7 days with the hand at REST;
\* millis() is 40 ms short of 2^32 and the gates were re-based by recent
\* passes. The clock then runs across the wrap.
\* ------------------------------------------------------------------------
WrapStart == <<HALF - 1, HALF - 40>>

InitWrap ==
    /\ pc = "top"
    /\ emergencyStop = FALSE
    /\ currentPose = [i \in Fingers |-> 0]
    /\ targetPose = [i \in Fingers |-> 0]
    /\ movementActive = FALSE
    /\ currentPoseName = REST_NAME
    /\ fingers = [i \in Fingers |-> [attached |-> TRUE, angle |-> 0]]
    /\ gsrValue \in GsrInputs /\ emgValue \in EmgInputs
    /\ heartRate = 0 /\ spo2 = 0 /\ irValue = 40000
    /\ now = WrapStart
    /\ \E a \in {0, 10} : lastServoUpdate = SubU32(now, U32(a))
    /\ lastSensorRead = now
    /\ \E c \in {4950, 4990} : lastCloudUpload = SubU32(now, U32(c))
    /\ sessionStartTime = U32(BootFast)
    /\ \E r \in SessionRands :
          sessionID = StringOfULong(sessionStartTime) \o <<"_">> \o StringOfInt(r)
    /\ rx = << >>
    /\ client = NoPayload /\ payload = NoPayload /\ waited = 0
    /\ notices = 0
    /\ poseReply = ""
    /\ resumed = FALSE
    /\ steps = 0
    /\ ServerInit

\* millis() advances, across 2^32, for MaxWrapSpan ms.
TickWrap ==
    /\ pc # "connect"
    /\ \E d \in TickDeltas :
          /\ LeU32(AddU32(Elapsed(now, WrapStart), U32(d)), U32(MaxWrapSpan))
          /\ now' = AddU32(now, U32(d))
    /\ UNCHANGED <<pc, emergencyStop, handVars, sensorVars, gateVars, bootVars, serverVars,
                   rx, client, payload, waited, notices, poseReply, resumed, steps>>

NextWrap ==
    \/ Loop
    \/ TickWrap

SpecWrap == InitWrap /\ [][NextWrap]_vars

\* ------------------------------------------------------------------------
\* Motion step study: the hand is where PriorSteps motion steps towards one
\* catalog pose have brought it from rest (channel i at min(angle, 5 n), see
\* C7), another catalog pose is commanded, and updateServoPositions() is
\* applied step after step. Targets lie above, below and at the current angle.
\* ------------------------------------------------------------------------
PriorSteps == {0, 7, 18, 36}

InitStep ==
    /\ pc = "servo"
    /\ emergencyStop = FALSE
    /\ \E j \in 1..NUM_POSES, n \in PriorSteps :
          currentPose = [i \in Fingers |-> Min(poses[j].angles[i], SERVO_SPEED * n)]
    /\ movementActive \in BOOLEAN
    /\ \E k \in 1..NUM_POSES :
          /\ currentPoseName = poses[k].name
          /\ targetPose = poses[k].angles
    /\ fingers = [i \in Fingers |-> [attached |-> TRUE, angle |-> currentPose[i]]]
    /\ gsrValue = 0 /\ emgValue = 0 /\ heartRate = 0 /\ spo2 = 0 /\ irValue = 0
    /\ now = U32(BootFast)
    /\ lastServoUpdate = U32(0) /\ lastSensorRead = U32(0) /\ lastCloudUpload = U32(0)
    /\ sessionStartTime = now
    /\ \E r \in SessionRands :
          sessionID = StringOfULong(now) \o <<"_">> \o StringOfInt(r)
    /\ rx = << >>
    /\ client = NoPayload /\ payload = NoPayload /\ waited = 0
    /\ notices = 0
    /\ poseReply = "executing"
    /\ resumed = FALSE
    /\ steps = 0
    /\ ServerInit

NextStep == MotionStep

SpecStep == InitStep /\ [][NextStep]_vars

\* ------------------------------------------------------------------------
\* Angle range study: after a fast boot FIST was commanded and
\* 35 motion steps, 20 ms apart, have brought the hand to within one
\* step of 180 degrees on the channels that go there (channel i at
\* min(angle, 5 n), see C7); the last of these passes, which also read the
\* sensors, ended one motion interval before the first telemetry upload is
\* due. From there the whole loop runs with the clock: the console sends pose
\* lines that send the hand back down or up again, stop and resume, and the
\* stop pin can fall.
\* ------------------------------------------------------------------------
\* motion steps made before the study starts
RangePriors == {35}
\* the pose commanded before the study starts
RangePoses == {k \in 1..NUM_POSES : poses[k].name = FIST_NAME}
RangeStart == U32(CLOUD_UPLOAD_MS - SERVO_UPDATE_MS)

InitRange ==
    /\ pc = "top"
    /\ emergencyStop = FALSE
    /\ \E j \in RangePoses, n \in RangePriors :
          /\ currentPoseName = poses[j].name
          /\ targetPose = poses[j].angles
          /\ currentPose = [i \in Fingers |-> Min(poses[j].angles[i], SERVO_SPEED * n)]
          /\ movementActive = (\E i \in Fingers : poses[j].angles[i] > SERVO_SPEED * (n - 1))
    /\ fingers = [i \in Fingers |-> [attached |-> TRUE, angle |-> currentPose[i]]]
    /\ gsrValue \in GsrInputs /\ emgValue \in EmgInputs
    /\ heartRate = 0 /\ spo2 = 0 /\ irValue = 40000
    /\ now = RangeStart
    /\ lastServoUpdate = now /\ lastSensorRead = now /\ lastCloudUpload = U32(0)
    /\ sessionStartTime = U32(BootFast)
    /\ \E r \in SessionRands :
          sessionID = StringOfULong(sessionStartTime) \o <<"_">> \o StringOfInt(r)
    /\ rx = << >>
    /\ client = NoPayload /\ payload = NoPayload /\ waited = 0
    /\ notices = 0
    /\ poseReply = "executing"
    /\ resumed = FALSE
    /\ steps = 0
    /\ ServerInit

RangeLines ==
    {<<"p","o","s","e"," ","o","p","e","n">>,
     <<"p","o","s","e"," ","f","i","s","t">>,
     CmdStop, CmdResume}

SerialArriveRange == SerialArriveOf(RangeLines)

\* millis() advances by one motion interval, for MaxRangeSpan ms.
TickRange ==
    /\ pc # "connect"
    /\ LeU32(AddU32(Elapsed(now, RangeStart), U32(SERVO_UPDATE_MS)), U32(MaxRangeSpan))
    /\ now' = AddU32(now, U32(SERVO_UPDATE_MS))
    /\ UNCHANGED <<pc, emergencyStop, handVars, sensorVars, gateVars, bootVars, serverVars,
                   rx, client, payload, waited, notices, poseReply, resumed, steps>>

NextRange ==
    \/ Loop
    \/ SerialArriveRange
    \/ emergencyStopISR
    \/ TickRange

SpecRange == InitRange /\ [][NextRange]_vars

\* ------------------------------------------------------------------------
\* Pose command study: the console sends pose lines only, with the names
\* below, and loop() takes them one per pass.
\* ------------------------------------------------------------------------
FistLower == <<"f","i","s","t">>

\* every letter-case variant of "fist"
FistVariants ==
    {[k \in 1..Len(FistLower) |-> IF k \in S THEN ToUpperChar(FistLower[k]) ELSE FistLower[k]] :
        S \in SUBSET (1..Len(FistLower))}

\* other names typed after "pose "
OtherNames ==
    {<<"f","i","s">>,
     <<"f","i","s","t","s">>,
     <<" ","f","i","s","t">>,
     <<"l","_","s","h","a","p","e">>,
     <<"L","_","S","h","a","p","e">>,
     <<"l","-","s","h","a","p","e">>,
     <<"t","w","o">>,
     <<"T","w","o","_","J","o","i","n","t">>,
     <<"t","w","o","_">>,
     <<"r","o","c","k","_","r","o","l","l">>,
     <<"r","o","c","k"," ","r","o","l","l">>,
     <<"f","i","v","e">>,
     <<"O","p","e","n">>,
     <<"x","y","z">>}

PoseLines ==
    {PosePrefix \o n : n \in FistVariants \cup OtherNames}
        \cup {<<"P","O","S","E"," ","F","I","S","T">>,
              <<"P","o","s","e"," ","T","h","r","e","e">>,
              <<" ","p","o","s","e"," ","f","i","s","t","\r">>}

SerialArrivePose == SerialArriveOf(PoseLines)

\* The clock stands at the boot time in this study, so the upload interval
\* never elapses: LoopCloud always finds its gate shut and uploadToCloud() is
\* never entered.
NextPose ==
    \/ LoopCheck
    \/ LoopServo
    \/ LoopSensor
    \/ LoopCloud
    \/ LoopSerial
    \/ SerialArrivePose

\* setup() when the network came up at once and the clock did not tick
\* between its two reads
InitFast == Init /\ now = U32(BootFast)

\* setup() when the network did not come up within its twenty attempts and
\* the clock did not tick between its two reads
InitSlow == Init /\ now = U32(BootSlow)

SpecPose == InitFast /\ [][NextPose]_vars

\* Sensor study: the loop runs with the clock, and the sensors return a wider
\* range of values: two skin-response values, an optical intensity at and
\* just above the presence threshold, two pulse values.
WideGsr   == {512, 1023}
WideEmg   == {300}
WideIr    == {IR_THRESHOLD, IR_THRESHOLD + 1}
WidePulse == {72, 80}
WideSpO2  == {98}

LoopSensorWide == LoopSensorOf(WideGsr, WideEmg, WideIr, WidePulse, WideSpO2)

NextSensor ==
    \/ LoopCheck
    \/ LoopServo
    \/ LoopSensorWide
    \/ LoopCloud
    \/ LoopConnectWait
    \/ LoopConnectDone
    \/ LoopSerial
    \/ Tick

SpecSensor == Init /\ [][NextSensor]_vars

\* Telemetry study: the clock advances by whole telemetry intervals, so that
\* uploads happen in passes where the hand is moving to a commanded pose.
TelemetryLines ==
    {<<"p","o","s","e"," ","o","n","e">>,
     <<"p","o","s","e"," ","f","i","s","t">>}

SerialArriveTelemetry == SerialArriveOf(TelemetryLines)

TelemetryDeltas == {CLOUD_UPLOAD_MS - 1, CLOUD_UPLOAD_MS}

TickTelemetry == TickOf(TelemetryDeltas, MaxTelemetryUptime)

NextTelemetry ==
    \/ Loop
    \/ SerialArriveTelemetry
    \/ emergencyStopISR
    \/ TickTelemetry

SpecTelemetry == InitFast /\ [][NextTelemetry]_vars

\* Unknown-name study: the console sends one catalog name and two names that
\* are not in the catalog, while the clock runs and the stop pin can fall.
UnknownPoseLines ==
    {CmdPoseFist,
     <<"p","o","s","e"," ","f","i","s","t","s">>,
     <<"P","o","s","e"," ","F","i","s">>}

SerialArriveUnknown == SerialArriveOf(UnknownPoseLines)

NextUnknown ==
    \/ Loop
    \/ SerialArriveUnknown
    \/ emergencyStopISR
    \/ Tick

SpecUnknown == InitSlow /\ [][NextUnknown]_vars

\* ------------------------------------------------------------------------
\* Collector: POST /api/sync/upload. Each request runs the handler; the
\* handler gives up the processor at every await, so the database operations
\* of two requests interleave. A database operation can throw.
\* ------------------------------------------------------------------------
OfflineIds == {"a", "b"}

\* the offlineData arrays a client sends: 1..MaxItems offline ids
OfflineBatches == UNION {[1..n -> OfflineIds] : n \in 1..MaxItems}

\* DataPoint.findOne({ offlineId: id }) on the collection
FindOneByOfflineId(id) == \E k \in 1..Len(dataPoints) : dataPoints[k].offlineId = id

\* The handler's record once the current item is done: next item, or respond.
NextItem(rec) ==
    [rec EXCEPT !.i = rec.i + 1,
                !.existing = FALSE,
                !.pc = IF rec.i = Len(rec.offlineData) THEN "respond" ELSE "find"]

\* app.post('/api/sync/upload', ...): the request arrives, the loop starts.
SyncReceive ==
    /\ \E r \in Requests, data \in OfflineBatches :
          /\ sync[r].pc = "idle"
          /\ sync' = [sync EXCEPT ![r] = [IdleRequest EXCEPT !.pc = "find",
                                                           !.offlineData = data,
                                                           !.i = 1]]
    /\ UNCHANGED <<dataPoints, stream, firmwareVars>>

\* const existing = await DataPoint.findOne({ offlineId: data.offlineId });
SyncFindOne ==
    /\ \E r \in Requests, ok \in BOOLEAN :
          /\ sync[r].pc = "find"
          /\ sync' = [sync EXCEPT ![r] =
                IF ok
                THEN [@ EXCEPT !.existing =
                                   FindOneByOfflineId(sync[r].offlineData[sync[r].i]),
                               !.pc = "save"]
                ELSE NextItem([@ EXCEPT !.failed = Append(@, sync[r].offlineData[sync[r].i])])]
    /\ UNCHANGED <<dataPoints, stream, firmwareVars>>

\* if (!existing) { await dataPoint.save(); synced.push } else { synced.push }
SyncSave ==
    /\ \E r \in Requests, ok \in BOOLEAN :
          /\ sync[r].pc = "save"
          /\ LET id == sync[r].offlineData[sync[r].i]
             IN IF sync[r].existing
                THEN /\ sync' = [sync EXCEPT ![r] =
                                    NextItem([@ EXCEPT !.synced = Append(@, id)])]
                     /\ UNCHANGED dataPoints
                ELSE IF ok
                THEN /\ dataPoints' = Append(dataPoints, [offlineId |-> id, synced |-> TRUE])
                     /\ sync' = [sync EXCEPT ![r] =
                                    NextItem([@ EXCEPT !.synced = Append(@, id)])]
                ELSE /\ sync' = [sync EXCEPT ![r] =
                                    NextItem([@ EXCEPT !.failed = Append(@, id)])]
                     /\ UNCHANGED dataPoints
    /\ UNCHANGED <<stream, firmwareVars>>

\* What a DataPoint built without an offlineId holds in that path.
NoOfflineId == "undefined"

\* The DataPoints the stream route stored.
Streamed == {k \in 1..Len(dataPoints) : dataPoints[k].offlineId = NoOfflineId}

\* heart_rate values of the stream requests
StreamHeartRates == {72, 110}

\* The stream handler ends with this status.
StreamEnds(status) == stream' = [stream EXCEPT !.pc = "done", !.status = status]

\* The stream handler goes on to its next await.
StreamGoes(next) == stream' = [stream EXCEPT !.pc = next]

\* app.post('/api/data/stream', ...): the request arrives and the handler
\* calls Session.findOne.
StreamReceive ==
    /\ stream.pc \in {"idle", "done"}
    /\ Cardinality(Streamed) < MaxStream
    /\ \E hr \in StreamHeartRates :
          stream' = [pc |-> "findSession", heart_rate |-> hr, status |-> 0]
    /\ UNCHANGED <<dataPoints, sync, firmwareVars>>

\* const session = await Session.findOne(...); if (!session) return 404
StreamFindSession ==
    /\ stream.pc = "findSession"
    /\ \E outcome \in {"found", "none", "error"} :
          IF outcome = "found" THEN StreamGoes("saveSession")
          ELSE IF outcome = "none" THEN StreamEnds(404)
          ELSE StreamEnds(500)
    /\ UNCHANGED <<dataPoints, sync, firmwareVars>>

\* session.currentExercise = pose; await session.save();
StreamSessionSave ==
    /\ stream.pc = "saveSession"
    /\ \E ok \in BOOLEAN : IF ok THEN StreamGoes("saveData") ELSE StreamEnds(500)
    /\ UNCHANGED <<dataPoints, sync, firmwareVars>>

\* const dataPoint = new DataPoint({...}); await dataPoint.save(): a DataPoint
\* without offlineId, synced by the schema default, joins the collection.
StreamSave ==
    /\ stream.pc = "saveData"
    /\ \E ok \in BOOLEAN :
          IF ok
          THEN /\ dataPoints' = Append(dataPoints, [offlineId |-> NoOfflineId, synced |-> TRUE])
               /\ StreamGoes(IF stream.heart_rate > ALERT_HEART_RATE THEN "alert" ELSE "respond")
          ELSE /\ StreamEnds(500)
               /\ UNCHANGED dataPoints
    /\ UNCHANGED <<sync, firmwareVars>>

\* if (heart_rate > 100) { ...; await alert.save(); ... }
StreamAlert ==
    /\ stream.pc = "alert"
    /\ \E ok \in BOOLEAN : IF ok THEN StreamGoes("respond") ELSE StreamEnds(500)
    /\ UNCHANGED <<dataPoints, sync, firmwareVars>>

\* io.to(...).emit('patient-data', ...); res.json({ success: true });
StreamRespond ==
    /\ stream.pc = "respond"
    /\ StreamEnds(200)
    /\ UNCHANGED <<dataPoints, sync, firmwareVars>>

\* res.json({ success: true, synced: synced.length, failed: failed.length, ... })
SyncRespond ==
    /\ \E r \in Requests :
          /\ sync[r].pc = "respond"
          /\ sync' = [sync EXCEPT ![r].pc = "done"]
    /\ UNCHANGED <<dataPoints, stream, firmwareVars>>

NextSync ==
    \/ SyncReceive
    \/ SyncFindOne
    \/ SyncSave
    \/ SyncRespond
    \/ StreamReceive
    \/ StreamFindSession
    \/ StreamSessionSave
    \/ StreamSave
    \/ StreamAlert
    \/ StreamRespond

SpecSync == InitFast /\ [][NextSync]_vars

\* ------------------------------------------------------------------------
\* Properties
\* ------------------------------------------------------------------------
\* A step of loop() that writes an angle to some servo.
WritesServo == \E i \in Fingers : fingers'[i].angle # fingers[i].angle

\* The line at the head of the receive buffer, as processCommand() sees it.
PendingCmd == IF rx = << >> THEN << >> ELSE toLowerCase(trim(Head(rx)))

\* The dispatcher takes the line at the head of the receive buffer.
TakesCmd(c) == pc = "serial" /\ pc' = "top" /\ PendingCmd = c /\ rx' = Tail(rx)

\* C1 (as stated): once the trip flag is set, no servo is written before all
\* five channels have been detached, for every interleaving of the interrupt
\* with a loop pass.
C1_NoWriteAfterTripSet ==
    [][(emergencyStop /\ ~AllDetached) => ~WritesServo]_vars

\* C1 (amended): a loop pass that starts with the trip flag set writes no
\* servo, detaches all five channels and ends; only the pass that was already
\* past its safety check when the flag was set can still write. In steps: at
\* the head of a pass with the flag set no step writes a servo, moves
\* currentPose or leaves the head, and the step that prints the notice leaves
\* all five channels detached; a write made with the flag set is the motion
\* step of a pass that is past its check, with all channels attached, by at
\* most SERVO_SPEED degrees a channel; and the
\* motion slot is never entered with the flag set.
C1_TrippedPassDetachesFirst ==
    [][/\ (pc = "top" /\ emergencyStop) =>
             (/\ ~WritesServo /\ currentPose' = currentPose /\ pc' = "top"
              /\ (fingers' = fingers \/ AllDetached')
              /\ (notices' # notices) => AllDetached')
       /\ (emergencyStop /\ WritesServo) =>
             (/\ pc = "servo" /\ pc' = "sensor" /\ AllAttached /\ AllAttached'
              /\ \A i \in Fingers :
                    fingers'[i].angle - fingers[i].angle \in (0 - SERVO_SPEED)..SERVO_SPEED)
       /\ (emergencyStop /\ pc' = "servo") => pc = "servo"]_vars

\* C1 witness: the fail-safe path has run once, in the pass after the one
\* that made an upload attempt and took a pose line, so the flag was set by the
\* interrupt during that pass and a move is still pending.
C1_Witness ==
    /\ emergencyStop /\ AllDetached /\ pc = "top" /\ notices = 1
    /\ lastCloudUpload # U32(0)
    /\ Elapsed(now, lastCloudUpload) = U32(ESTOP_DELAY_MS)
    /\ \E i \in Fingers : currentPose[i] # targetPose[i]

\* C2: a trip flag set at any point of a loop pass is still set when that pass
\* ends, so that the next pass starts with the fail-safe path, whatever line
\* the dispatcher takes in between.
C2_EveryTripObserved ==
    [][(emergencyStop /\ pc # "top") => emergencyStop']_vars

\* C3: once the fail-safe path has run and for as long as the flag is set, no
\* step changes currentPose and all channels stay detached.
C3_FrozenWhileTripped ==
    [][(emergencyStop /\ AllDetached) =>
          (currentPose' = currentPose /\ AllDetached' /\ ~WritesServo)]_vars

\* C3 witness: tripped and detached with channel 1 short of its target 180.
C3_Witness ==
    /\ emergencyStop /\ AllDetached
    /\ targetPose[1] = 180 /\ currentPose[1] > 0 /\ currentPose[1] < 180
    /\ GeU32(Elapsed(now, lastServoUpdate), U32(SERVO_UPDATE_MS))

\* C4: a tripped interlock with a resume request waiting on the command
\* interface eventually returns to ARMED.
C4_ResumeLeadsToArmed ==
    (emergencyStop /\ PendingCmd = CmdResume) ~> ~emergencyStop

\* C4 (why no later pass can help): once the fail-safe path has run, no step
\* of the program lowers the flag again.
C4_TrippedIsTrap ==
    [][(emergencyStop /\ AllDetached) => emergencyStop']_vars

\* C5: the flag starts false; it is raised only by the stop command or by a
\* step that does nothing else and takes no time (the interrupt), and lowered
\* only by the resume command; no step that moves a pass on from a task slot
\* (safety check, motion, sensors, telemetry check, the wait in
\* client.connect() and the return from the upload) changes it.
C5_FlagTransitions ==
    /\ ~emergencyStop
    /\ [][/\ (~emergencyStop /\ emergencyStop') =>
                (TakesCmd(CmdStop) \/ (pc' = pc /\ rx' = rx /\ now' = now /\ waited' = waited))
          /\ (emergencyStop /\ ~emergencyStop') => TakesCmd(CmdResume)
          /\ (pc # "serial" /\ pc' # pc) => emergencyStop' = emergencyStop]_vars

\* C5 witness: the flag was raised during a pass that has just delivered a
\* telemetry record and is about to take a resume line and lower it.
C5_Witness ==
    /\ emergencyStop /\ pc = "serial" /\ PendingCmd = CmdResume /\ AllAttached
    /\ client # NoPayload /\ lastCloudUpload = now

\* C6: the stop command and the hardware trip both lead to the same control
\* state, the one before it with the flag set: every step that raises the
\* flag, whichever of the two made it, and every step that takes a stop line,
\* with the flag already set or not, ends with the flag set and with angles,
\* targets, pose name, servos, sensor readings, clock and time gates as they
\* were; the two differ only in that the command leaves the receive buffer.
C6_StopEqualsTrip ==
    [][((~emergencyStop /\ emergencyStop') \/ TakesCmd(CmdStop)) =>
          (/\ emergencyStop' = TRUE
           /\ UNCHANGED <<currentPose, targetPose, movementActive, currentPoseName, fingers,
                          gsrValue, emgValue, heartRate, spo2, irValue, now,
                          lastServoUpdate, lastSensorRead, lastCloudUpload,
                          client, payload, waited, notices>>
           /\ (pc' = pc /\ rx' = rx) \/ (pc = "serial" /\ pc' = "top" /\ rx' = Tail(rx)))]_vars

\* C6 witness: a stop line is about to be taken while a move is under way.
C6_Witness ==
    /\ pc = "serial" /\ PendingCmd = CmdStop /\ ~emergencyStop
    /\ \E i \in Fingers : currentPose[i] # targetPose[i] /\ currentPose[i] > 0

Ceil(a, b) == (a + b - 1) \div b

\* C7: from angle 0, channel i never exceeds its target and is at its target
\* exactly from step ceil(target / SERVO_SPEED) on.
C7_ExactConvergence ==
    \A i \in Fingers :
        /\ currentPose[i] <= targetPose[i]
        /\ (currentPose[i] = targetPose[i]) <=> (steps >= Ceil(targetPose[i], SERVO_SPEED))

\* C7 witness: a channel with target 180 arrives at step 36, one with 45 at step 9.
C7_Witness ==
    \/ steps = 36 /\ \E i \in Fingers : targetPose[i] = 180 /\ currentPose[i] = 180
    \/ steps = 9 /\ targetPose[0] = 45 /\ currentPose[0] = 45

\* C8 (as stated): FIST from rest, after 18 steps all five channels are at their
\* targets, after 17 steps channels 0 and 1 are at 85.
C8_FistAfter18 ==
    currentPoseName = FIST_NAME =>
        /\ steps = 18 => currentPose = targetPose
        /\ steps = 17 => (currentPose[0] = 85 /\ currentPose[1] = 85)

\* C8 (amended): FIST from rest, after 18 steps channel 0 is at its target 90
\* and channels 1..4 are at 90 of 180; all five are at their targets after 36
\* steps; after 17 steps channels 0 and 1 are at 85.
C8_FistAfter36 ==
    currentPoseName = FIST_NAME =>
        /\ steps = 18 => currentPose = [i \in Fingers |-> 90]
        /\ steps = 36 => currentPose = targetPose
        /\ steps < 36 => currentPose # targetPose
        /\ steps = 17 => (currentPose[0] = 85 /\ currentPose[1] = 85)

\* C8 witness: FIST reached after 36 steps.
C8_Witness ==
    currentPoseName = FIST_NAME /\ steps = 36 /\ currentPose = poses[2].angles

\* C9: every current and target angle is an integer within [0, 180], and so
\* is every angle written to a servo.
C9_AnglesInRange ==
    \A i \in Fingers :
        currentPose[i] \in 0..180 /\ targetPose[i] \in 0..180 /\ fingers[i].angle \in 0..180

\* C9 witness: a channel went up to 180, was sent down to 0 by a pose command
\* and has come down one step, channel 0 is on its way from 90 down to 45, a
\* resume line has been taken and the interlock has tripped since.
C9_Witness ==
    /\ resumed /\ emergencyStop
    /\ lastServoUpdate = AddU32(RangeStart, U32(2 * SERVO_UPDATE_MS))
    /\ currentPose[0] = 85 /\ targetPose[0] = 45
    /\ \E i \in Fingers : currentPose[i] = 180 - SERVO_SPEED /\ targetPose[i] = 0

\* C10: at the head of a pass with the flag set, no step leaves the head of
\* the loop, moves a channel, samples a sensor, uploads, takes a command or
\* touches a gate instant.
C10_OnlyFailSafeWhileTripped ==
    [][(pc = "top" /\ emergencyStop) =>
          (/\ pc' = "top"
           /\ UNCHANGED <<currentPose, targetPose, movementActive, currentPoseName,
                          gsrValue, emgValue, heartRate, spo2, client,
                          lastServoUpdate, lastSensorRead, lastCloudUpload>>
           /\ Len(rx') >= Len(rx) /\ SubSeq(rx', 1, Len(rx)) = rx)]_vars

\* C10 witness: a tripped pass with every gate open and a command waiting.
C10_Witness ==
    /\ pc = "top" /\ emergencyStop /\ AllDetached /\ rx # << >>
    /\ GeU32(Elapsed(now, lastServoUpdate), U32(SERVO_UPDATE_MS))
    /\ GeU32(Elapsed(now, lastSensorRead), U32(SENSOR_READ_MS))
    /\ GeU32(Elapsed(now, lastCloudUpload), U32(CLOUD_UPLOAD_MS))
    /\ \E i \in Fingers : currentPose[i] # targetPose[i]

\* C11 (as stated): the emergency-stop notice is printed one time per trip:
\* once the fail-safe path has run for a trip (every channel is detached) and
\* for as long as the flag stays set, no further notice is printed, however
\* many passes follow.
C11_NoticeOncePerTrip ==
    [][(emergencyStop /\ emergencyStop' /\ AllDetached) => notices' = notices]_vars

\* C11 (amended): every pass that starts tripped prints the notice once and
\* then waits 1000 ms, so the notice repeats for as long as the interlock
\* stays tripped, and two notices are never less than 1000 ms apart.
C11_NoticeEveryTrippedPass ==
    [][/\ (pc = "top" /\ emergencyStop /\ Elapsed(now', now) = U32(ESTOP_DELAY_MS))
             => notices' = notices + 1
       /\ (notices' # notices)
             => (/\ pc = "top" /\ emergencyStop /\ pc' = "top"
                 /\ notices' = notices + 1
                 /\ Elapsed(now', now) = U32(ESTOP_DELAY_MS))]_vars

\* C11 witness: the interlock is still tripped and the notice has been printed
\* three times already.
C11_Witness ==
    /\ pc = "top" /\ emergencyStop /\ AllDetached /\ notices = 3

\* Two strings are equal when letter case is ignored.
EqIgnoreCase(a, b) ==
    /\ Len(a) = Len(b)
    /\ \A k \in 1..Len(a) : ToLowerChar(a[k]) = ToLowerChar(b[k])

\* The line at the head of the receive buffer is a pose command.
PendingIsPose ==
    /\ rx # << >>
    /\ Len(trim(Head(rx))) >= Len(PosePrefix)
    /\ EqIgnoreCase(SubSeq(trim(Head(rx)), 1, Len(PosePrefix)), PosePrefix)

\* The name typed in that line, letter case as typed.
PendingName == SubSeq(trim(Head(rx)), Len(PosePrefix) + 1, Len(trim(Head(rx))))

\* C12: a pose command whose name equals a catalog name when letter case is
\* ignored sets the target to that entry's angles, whatever the case typed;
\* a name that equals no catalog name when case is ignored (a strict prefix or
\* an extension of one included) is answered "Pose not found" and sets nothing.
C12_CaseInsensitiveExact ==
    [][(pc = "serial" /\ pc' = "top" /\ PendingIsPose) =>
          IF \E k \in 1..NUM_POSES : EqIgnoreCase(PendingName, poses[k].name)
          THEN /\ \E k \in 1..NUM_POSES :
                     /\ EqIgnoreCase(PendingName, poses[k].name)
                     /\ targetPose' = poses[k].angles
               /\ poseReply' = "executing"
          ELSE /\ poseReply' = "not found"
               /\ targetPose' = targetPose]_vars

\* C12 witness: a name was answered "Pose not found" before, and a mixed-case
\* variant of FIST is about to be taken while the target is still REST.
C12_Witness ==
    /\ pc = "serial" /\ PendingIsPose
    /\ PendingName = <<"f","I","s","T">>
    /\ poseReply = "not found"
    /\ targetPose = poses[1].angles

\* C13: taking a pose command whose name is not in the catalog leaves the
\* target and current angle of every channel, the servos, currentPoseName and
\* the trip flag as they were.
C13_UnknownPoseChangesNothing ==
    [][(/\ pc = "serial" /\ pc' = "top" /\ PendingIsPose
        /\ \A k \in 1..NUM_POSES : ~EqIgnoreCase(PendingName, poses[k].name)) =>
          (/\ poseReply' = "not found"
           /\ UNCHANGED <<targetPose, currentPose, fingers, movementActive,
                          currentPoseName, emergencyStop>>)]_vars

\* C13 witness: an unknown name is about to be taken while the hand is on its
\* way to FIST and the trip flag has just been set.
C13_Witness ==
    /\ pc = "serial" /\ PendingIsPose
    /\ \A k \in 1..NUM_POSES : ~EqIgnoreCase(PendingName, poses[k].name)
    /\ currentPoseName = FIST_NAME /\ targetPose = poses[2].angles
    /\ currentPose[1] = SERVO_SPEED
    /\ emergencyStop

\* C14: a channel that is detached and stays detached keeps its currentAngle
\* and receives no write, in every step of every behaviour.
C14_UnboundNeverMoves ==
    [][\A i \in Fingers :
          (~fingers[i].attached /\ ~fingers'[i].attached) =>
              (/\ currentPose'[i] = currentPose[i]
               /\ fingers'[i].angle = fingers[i].angle)]_vars

\* C14 witness: a resume line was taken earlier in the run ("System resumed"
\* is on the console); after it the interlock tripped again and every channel
\* is now detached short of its target, with the motion gate open and a
\* further resume line waiting in the receive buffer.
C14_Witness ==
    /\ resumed /\ AllDetached /\ pc = "top"
    /\ PendingCmd = CmdResume
    /\ \E i \in Fingers : currentPose[i] # targetPose[i] /\ currentPose[i] # 0
    /\ GeU32(Elapsed(now, lastServoUpdate), U32(SERVO_UPDATE_MS))

\* Once a channel is detached the flag is set and nothing clears it or attaches
\* the channel again: a resume line is never taken after the channels were
\* detached, so a detached channel is never in a pass that runs the motion step.
C14_DetachedIsTripped ==
    (\E i \in Fingers : ~fingers[i].attached) => (emergencyStop /\ AllDetached)

\* The step is a call of readSensors() by loop().
ReadsSensors ==
    /\ pc = "sensor" /\ pc' = "cloud"
    /\ GeU32(Elapsed(now, lastSensorRead), U32(SENSOR_READ_MS))

\* C15: a sensor read whose optical intensity does not exceed the presence
\* threshold leaves heartRate and spo2 at their values before the read, and
\* such a read can still store every gsr and emg value the ADC can return.
C15_PresenceGated ==
    [][ReadsSensors =>
          /\ (irValue' <= IR_THRESHOLD) => (heartRate' = heartRate /\ spo2' = spo2)
          /\ \A g \in WideGsr, e \in WideEmg :
                 ENABLED (/\ LoopSensorWide
                          /\ irValue' <= IR_THRESHOLD
                          /\ gsrValue' = g /\ emgValue' = e)]_vars

\* C15 witness: a read at exactly the threshold intensity has just rewritten
\* gsr and emg and has kept the pulse and saturation measured earlier.
C15_Witness ==
    /\ pc = "cloud" /\ lastSensorRead = now
    /\ irValue = IR_THRESHOLD
    /\ heartRate = 80 /\ spo2 = 98
    /\ gsrValue = 1023 /\ emgValue = 300

\* One time gate in one step: the gate is looked at only in its own slot of
\* the pass; there the task runs and the reference instant becomes the current
\* time when at least one interval has elapsed, however many, and otherwise
\* neither happens; in every other step the reference instant and what the
\* task writes stay as they are.
GateStep(slot, next, last, lastAfter, interval, taskLeavesAlone) ==
    IF pc = slot /\ pc' = next
    THEN IF GeU32(Elapsed(now, last), U32(interval))
         THEN lastAfter = now'
         ELSE lastAfter = last /\ taskLeavesAlone
    ELSE lastAfter = last /\ taskLeavesAlone

\* The telemetry gate in one step. Its task waits on the network, so it takes
\* up to three steps: the check, which with the gate open either finds the
\* network down and re-bases, or builds the payload and starts to connect;
\* the wait; and the return, which re-bases. Nothing else moves the reference,
\* builds a payload or hands one to the client.
CloudGateStep ==
    /\ (pc = "cloud" /\ pc' # pc) =>
          IF GeU32(Elapsed(now, lastCloudUpload), U32(CLOUD_UPLOAD_MS))
          THEN \/ pc' = "serial" /\ lastCloudUpload' = now' /\ payload' = payload
               \/ /\ pc' = "connect" /\ payload' # NoPayload
                  /\ lastCloudUpload' = lastCloudUpload
          ELSE pc' = "serial" /\ lastCloudUpload' = lastCloudUpload /\ payload' = payload
    /\ (pc = "connect" /\ pc' = "serial") => lastCloudUpload' = now'
    /\ (lastCloudUpload' # lastCloudUpload) => (pc \in {"cloud", "connect"} /\ pc' = "serial")
    /\ (payload' # payload) => (pc \in {"cloud", "connect"} /\ pc' # pc)
    /\ (client' # client) => (pc = "connect" /\ pc' = "serial")

\* C16: the three time gates have level semantics without backlog: a check
\* that finds one or many intervals elapsed runs the task once and re-bases the
\* reference instant to the current time, so the next run needs a full
\* interval after that instant; no task runs without its gate being open.
C16_LevelGates ==
    [][/\ GateStep("servo", "sensor", lastServoUpdate, lastServoUpdate', SERVO_UPDATE_MS,
                   currentPose' = currentPose /\ movementActive' = movementActive
                       /\ \A i \in Fingers : fingers'[i].angle = fingers[i].angle)
       /\ GateStep("sensor", "cloud", lastSensorRead, lastSensorRead', SENSOR_READ_MS,
                   sensorVars' = sensorVars)
       /\ CloudGateStep]_vars

\* C16 witness: an earlier pass delivered a telemetry record and re-based the
\* telemetry gate on its return from the upload; the motion gate was re-based
\* by an earlier pass too and is now checked two intervals late, with a move
\* under way.
C16_Witness ==
    /\ pc = "servo"
    /\ client # NoPayload /\ lastCloudUpload # U32(0)
    /\ lastServoUpdate # U32(0)
    /\ GeU32(Elapsed(now, lastServoUpdate), U32(2 * SERVO_UPDATE_MS))
    /\ \E i \in Fingers : currentPose[i] # targetPose[i]

\* The slots of a pass, in the order loop() goes through them.
PassOrder ==
    {<<"top", "servo">>, <<"servo", "sensor">>, <<"sensor", "cloud">>,
     <<"cloud", "serial">>, <<"cloud", "connect">>, <<"connect", "serial">>,
     <<"serial", "top">>}

\* C17: a pass goes through safety check, motion step, sensor sampling,
\* telemetry and command intake in that order; each task writes its state only
\* in its own slot, so what a command sets is seen by the motion step and the
\* telemetry snapshot of the next pass at the earliest.
C17_FixedOrder ==
    [][/\ (pc' # pc) => (<<pc, pc'>> \in PassOrder)
       /\ (pc = "top" /\ pc' = "servo") => ~emergencyStop
       /\ (currentPose' # currentPose \/ WritesServo \/ movementActive' # movementActive)
             => (pc = "servo" /\ pc' = "sensor")
       /\ (sensorVars' # sensorVars) => (pc = "sensor" /\ pc' = "cloud")
       /\ (payload' # payload) => (pc \in {"cloud", "connect"} /\ pc' # pc)
       /\ (client' # client) => (pc = "connect" /\ pc' = "serial" /\ client' = payload)
       /\ (\/ targetPose' # targetPose \/ currentPoseName' # currentPoseName
           \/ poseReply' # poseReply \/ Len(rx') < Len(rx))
             => (pc = "serial" /\ pc' = "top")]_vars

\* C17 witness: a pose command is about to be taken at the end of a pass whose
\* motion step and telemetry upload have both run, the hand being on its way.
C17_Witness ==
    /\ pc = "serial" /\ PendingIsPose
    /\ lastServoUpdate = now /\ lastCloudUpload = now
    /\ client # NoPayload
    /\ currentPoseName # REST_NAME
    /\ \E i \in Fingers : currentPose[i] # targetPose[i] /\ currentPose[i] # 0

\* The step ends a telemetry attempt that sends nothing: the gate is open and
\* the network is down, or client.connect() returns without a connection.
UploadFails ==
    \/ /\ pc = "cloud" /\ pc' = "serial"
       /\ GeU32(Elapsed(now, lastCloudUpload), U32(CLOUD_UPLOAD_MS))
    \/ /\ pc = "connect" /\ pc' = "serial"
       /\ client' = client

\* C18: a failed upload re-bases the telemetry gate to the current time, keeps
\* no payload and changes no angle, target, pose name or trip flag; an attempt
\* is made only when a full interval has elapsed since the last one; a payload
\* lives only while its own attempt waits for the connection, and one that
\* is sent was stamped when that attempt began, so none is sent later.
C18_BestEffort ==
    [][/\ UploadFails =>
             (/\ lastCloudUpload' = now'
              /\ payload' = NoPayload
              /\ UNCHANGED <<currentPose, targetPose, fingers, movementActive,
                             currentPoseName, emergencyStop>>)
       /\ (lastCloudUpload' # lastCloudUpload) =>
             GeU32(Elapsed(now, lastCloudUpload), U32(CLOUD_UPLOAD_MS))
       /\ (pc' # "connect") => (payload' = NoPayload)
       /\ (client' # client) =>
             (/\ client' = payload
              /\ \E w \in ConnectDelays, d \in ReadDeltas :
                    client'[2][2] = StringOfULong(SubU32(now, U32(w + d))))]_vars

\* C18 witness: an upload has just failed in a pass in which the hand is on its
\* way to a commanded pose, and nothing was ever sent.
C18_Witness ==
    /\ pc = "serial" /\ lastCloudUpload = now
    /\ client = NoPayload
    /\ currentPoseName # REST_NAME
    /\ \E i \in Fingers : currentPose[i] # targetPose[i] /\ currentPose[i] # 0

\* Reading the payload texts back: decimal digits to a number, a quoted string
\* to its content, a bracketed list to its elements, a two-decimal number to
\* hundredths.
DigitVal(c) == CHOOSE d \in 0..9 : Digits[d + 1] = c

IsDigits(t) == t # << >> /\ \A k \in 1..Len(t) : \E d \in 0..9 : Digits[d + 1] = t[k]

RECURSIVE ParseInt(_)
ParseInt(t) ==
    IF t = << >> THEN 0
    ELSE ParseInt(SubSeq(t, 1, Len(t) - 1)) * 10 + DigitVal(t[Len(t)])

Mul10U32(a) == <<(a[1] * 10 + ((a[2] * 10) \div HALF)) % HALF, (a[2] * 10) % HALF>>

RECURSIVE ParseULong(_)
ParseULong(t) ==
    IF t = << >> THEN U32(0)
    ELSE AddU32(Mul10U32(ParseULong(SubSeq(t, 1, Len(t) - 1))), U32(DigitVal(t[Len(t)])))

RECURSIVE SplitAt(_, _)
SplitAt(t, sep) ==
    IF \A k \in 1..Len(t) : t[k] # sep
    THEN <<t>>
    ELSE LET k == CHOOSE j \in 1..Len(t) : t[j] = sep /\ \A h \in 1..(j - 1) : t[h] # sep
         IN <<SubSeq(t, 1, k - 1)>> \o SplitAt(SubSeq(t, k + 1, Len(t)), sep)

IsQuoted(t) == Len(t) >= 2 /\ t[1] = "\"" /\ t[Len(t)] = "\""
Unquote(t) == SubSeq(t, 2, Len(t) - 1)

IsList(t) == Len(t) >= 2 /\ t[1] = "[" /\ t[Len(t)] = "]"
ParseList(t) ==
    LET items == SplitAt(SubSeq(t, 2, Len(t) - 1), ",")
    IN [k \in 1..Len(items) |-> ParseInt(items[k])]

IsFixed2(t) ==
    /\ Len(SplitAt(t, ".")) = 2
    /\ IsDigits(SplitAt(t, ".")[1])
    /\ IsDigits(SplitAt(t, ".")[2]) /\ Len(SplitAt(t, ".")[2]) = 2
Hundredths(t) == ParseInt(SplitAt(t, ".")[1]) * 100 + ParseInt(SplitAt(t, ".")[2])

PayloadKeys ==
    <<"session_id", "timestamp", "pose", "servo_positions", "gsr", "emg",
      "heart_rate", "spo2", "session_duration">>

\* C19: every record handed to the client has the nine members session_id,
\* timestamp, pose, servo_positions (thumb, index, middle, ring, pinky), gsr,
\* emg, heart_rate, spo2, session_duration in that order, and each text reads
\* back as the value the program holds when the record is built: timestamp is
\* the clock of the pass, session_duration the whole seconds of the session at
\* a clock read no more than one ReadDeltas later. The record handed to the
\* client is the one built in that attempt.
C19_PayloadFields ==
    [][/\ (client' # client) => (client' = payload)
       /\ (payload' # payload /\ payload' # NoPayload) =>
          (/\ [k \in 1..Len(payload') |-> payload'[k][1]] = PayloadKeys
           /\ IsQuoted(payload'[1][2]) /\ Unquote(payload'[1][2]) = sessionID
           /\ IsDigits(payload'[2][2]) /\ ParseULong(payload'[2][2]) = now
           /\ IsQuoted(payload'[3][2]) /\ Unquote(payload'[3][2]) = currentPoseName
           /\ IsList(payload'[4][2])
           /\ ParseList(payload'[4][2]) = [k \in 1..NUM_FINGERS |-> currentPose[k - 1]]
           /\ IsFixed2(payload'[5][2]) /\ Hundredths(payload'[5][2]) = 100 * gsrValue
           /\ IsFixed2(payload'[6][2]) /\ Hundredths(payload'[6][2]) = 100 * emgValue
           /\ IsDigits(payload'[7][2]) /\ ParseInt(payload'[7][2]) = heartRate
           /\ IsDigits(payload'[8][2]) /\ ParseInt(payload'[8][2]) = spo2
           /\ IsDigits(payload'[9][2])
           /\ \E d \in ReadDeltas :
                 ParseInt(payload'[9][2])
                     = DivU32(Elapsed(AddU32(now, U32(d)), sessionStartTime), 1000))]_vars

\* C19 witness: a record has just been sent while the hand moves to ONE, with
\* thumb and index at different angles and a measured pulse, five seconds into
\* the session, the clock having passed a whole second between the read for
\* timestamp and the read for session_duration.
C19_Witness ==
    /\ pc = "serial" /\ lastCloudUpload = now
    /\ client # NoPayload
    /\ Unquote(client[3][2]) = <<"O","N","E">>
    /\ currentPose[0] # currentPose[1]
    /\ heartRate # 0
    /\ ParseInt(client[9][2]) = 5
    /\ DivU32(Elapsed(ParseULong(client[2][2]), sessionStartTime), 1000) = 4

Abs(x) == IF x < 0 THEN 0 - x ELSE x

\* C20: in a motion step, a channel away from its target moves toward it by
\* min(SERVO_SPEED, |target - current|) and is written; a channel at its target
\* is neither changed nor written; no distance to target grows; and
\* movementActive after the step tells whether some channel moved in it.
C20_MotionStep ==
    [][(steps' = steps + 1) =>
          /\ \A i \in Fingers :
                 /\ (currentPose[i] # targetPose[i]) =>
                        (/\ Abs(targetPose[i] - currentPose'[i])
                              = Abs(targetPose[i] - currentPose[i])
                                  - Min(SERVO_SPEED, Abs(targetPose[i] - currentPose[i]))
                         /\ (targetPose[i] > currentPose[i]) => (currentPose'[i] > currentPose[i])
                         /\ (targetPose[i] < currentPose[i]) => (currentPose'[i] < currentPose[i])
                         /\ fingers'[i].angle = currentPose'[i])
                 /\ (currentPose[i] = targetPose[i]) =>
                        (currentPose'[i] = currentPose[i] /\ fingers'[i] = fingers[i])
                 /\ Abs(targetPose[i] - currentPose'[i]) <= Abs(targetPose[i] - currentPose[i])
          /\ movementActive' = (\E i \in Fingers : currentPose'[i] # currentPose[i])]_vars

\* C20 witness: after a step, one channel is on its way up, one on its way
\* down and one rests at its target, and movementActive is set.
C20_Witness ==
    /\ steps >= 1 /\ movementActive
    /\ \E i \in Fingers : currentPose[i] < targetPose[i] /\ currentPose[i] # 0
    /\ \E i \in Fingers : currentPose[i] > targetPose[i]
    /\ \E i \in Fingers : currentPose[i] = targetPose[i] /\ currentPose[i] # 0

\* The step function on every pair of angles of the servo range, the ones
\* closer than SERVO_SPEED to each other included.
C20_StepOfAnyAngles ==
    \A c \in 0..180, t \in 0..180 :
        /\ (c # t) => Abs(t - (c + StepOf(c, t))) = Abs(t - c) - Min(SERVO_SPEED, Abs(t - c))
        /\ (c # t) => StepOf(c, t) # 0
        /\ (t > c) => StepOf(c, t) > 0
        /\ (t < c) => StepOf(c, t) < 0

\* C21: taking a pose command whose name is in the catalog sets the target of
\* all five channels to that entry's angles and currentPoseName to its name,
\* and leaves every current angle, every servo (attached or not, last angle
\* written), the trip flag and the sensor readings as they were.
C21_PoseOnlyRetargets ==
    [][(/\ pc = "serial" /\ pc' = "top" /\ PendingIsPose
        /\ \E k \in 1..NUM_POSES : EqIgnoreCase(PendingName, poses[k].name)) =>
          (/\ \E k \in 1..NUM_POSES :
                 /\ EqIgnoreCase(PendingName, poses[k].name)
                 /\ targetPose' = poses[k].angles
                 /\ currentPoseName' = poses[k].name
           /\ UNCHANGED <<currentPose, fingers, movementActive, emergencyStop,
                          gsrValue, emgValue, heartRate, spo2>>)]_vars

\* C21 witness: "pose one" is about to be taken while the hand is part of the
\* way to FIST, a pulse has been measured and the trip flag has just been set.
C21_Witness ==
    /\ pc = "serial" /\ PendingIsPose
    /\ PendingName = <<"o","n","e">>
    /\ currentPoseName = FIST_NAME
    /\ currentPose[1] # 0 /\ currentPose[1] # targetPose[1]
    /\ heartRate # 0
    /\ emergencyStop

\* The catalog entries that carry the name n.
EntriesNamed(n) == {k \in 1..NUM_POSES : poses[k].name = n}

\* C22: no two catalog entries share a name, and in every state
\* currentPoseName is the name of exactly one entry and the target angles are
\* that entry's angles; after setup() the entry is REST with all angles 0.
C22_NameMatchesTarget ==
    /\ \A j \in 1..NUM_POSES, k \in 1..NUM_POSES :
          (poses[j].name = poses[k].name) => (j = k)
    /\ Cardinality(EntriesNamed(currentPoseName)) = 1
    /\ \A k \in EntriesNamed(currentPoseName) : targetPose = poses[k].angles
    /\ (poseReply = "") =>
          (currentPoseName = REST_NAME /\ targetPose = [i \in Fingers |-> 0])

\* C22 witness: TWO_JOINT was commanded and a later name was not found.
C22_Witness ==
    /\ currentPoseName = poses[14].name
    /\ targetPose = poses[14].angles
    /\ targetPose # poses[1].angles
    /\ poseReply = "not found"

\* An instant within 2^31 ms of the wrap as a signed number of ms after it.
AfterWrap(t) == IF t[1] >= HALF \div 2 THEN (t[1] - HALF) * HALF + t[2] ELSE t[1] * HALF + t[2]

\* A gate looked at in its slot has run its task and re-based, to the clock
\* read after the task, exactly when `interval` ms or more of real time lie
\* between the reference and now.
WrapGate(slot, next, last, lastAfter, interval) ==
    (pc = slot /\ pc' = next) =>
        IF AfterWrap(now) - AfterWrap(last) >= interval
        THEN lastAfter = now'
        ELSE lastAfter = last

\* The telemetry gate, whose task waits for the connection before the
\* re-base: the attempt starts exactly when CLOUD_UPLOAD_MS or more of real
\* time lie between the reference and now, and its end re-bases to the clock
\* read then.
CloudWrapGate ==
    /\ (pc = "cloud" /\ pc' # pc) =>
          IF AfterWrap(now) - AfterWrap(lastCloudUpload) >= CLOUD_UPLOAD_MS
          THEN pc' = "connect" \/ lastCloudUpload' = now'
          ELSE pc' = "serial" /\ lastCloudUpload' = lastCloudUpload
    /\ (pc = "connect" /\ pc' = "serial") => lastCloudUpload' = now'

\* C23: across the wrap of the 32-bit millisecond clock each gate runs its
\* task at the first check with a full interval of real time elapsed since
\* its reference instant, and at no check before, also when the reference
\* lies before the wrap and the check after it.
C23_GatesAcrossWrap ==
    [][/\ WrapGate("servo", "sensor", lastServoUpdate, lastServoUpdate', SERVO_UPDATE_MS)
       /\ WrapGate("sensor", "cloud", lastSensorRead, lastSensorRead', SENSOR_READ_MS)
       /\ CloudWrapGate]_vars

\* C23 witness: the clock has wrapped, the motion and telemetry references lie
\* before the wrap, and both intervals have elapsed.
C23_Witness ==
    /\ pc = "servo"
    /\ now[1] = 0 /\ lastServoUpdate[1] = HALF - 1 /\ lastCloudUpload[1] = HALF - 1
    /\ GeU32(Elapsed(now, lastServoUpdate), U32(SERVO_UPDATE_MS))
    /\ GeU32(Elapsed(now, lastCloudUpload), U32(CLOUD_UPLOAD_MS))

\* The DataPoints stored with offline id `id`.
StoredWith(id) == {k \in 1..Len(dataPoints) : dataPoints[k].offlineId = id}

\* C24 (as stated): after any sequence of sync requests, two processed
\* concurrently with the same offlineId included, at most one DataPoint is
\* stored with each offlineId.
C24_AtMostOnePerOfflineId ==
    \A id \in OfflineIds : Cardinality(StoredWith(id)) <= 1

\* C24 (as stated, second part): a request that has been answered counted
\* every offline id it submitted as synced.
C24_EverySubmittedSynced ==
    \A r \in Requests :
        (sync[r].pc = "done") => (sync[r].synced = sync[r].offlineData)

\* What does hold: a handler that finds the id already stored saves nothing,
\* so one request alone, or requests one after the other, store an id once.
C24_FoundIsNotSavedAgain ==
    [][\A r \in Requests :
          (sync[r].pc = "save" /\ sync[r].existing /\ sync'[r] # sync[r])
              => dataPoints' = dataPoints]_vars

====
